---- MODULE Spec2Model ----
(***************************************************************************)
(* Model of the three freqtrade strategies ShinonV1, ShinonV2 and          *)
(* ZaratustraV2: the per-trade callbacks (custom_stoploss, custom_exit,    *)
(* custom_stake_amount, adjust_trade_position) and the entry-signal hooks  *)
(* (populate_entry_trend).  The host engine owns the analyzed dataframe,   *)
(* the trade object and the scheduling of the callbacks; it is modelled by *)
(* the Host* actions.                                                      *)
(*                                                                         *)
(* Floats are modelled as exact rationals [n, d] with d > 0, plus NaN      *)
(* (d = 0), with Python's comparison rules: every comparison with NaN is   *)
(* False.                                                                  *)
(***************************************************************************)
EXTENDS Integers, Sequences, FiniteSets, TLC

VARIABLES
    self,        \* attributes of the strategy instances (class attributes, hyperparameters)
    dp,          \* what self.dp.get_analyzed_dataframe(pair, timeframe) returns
    trade,       \* the host's open trade object
    call,        \* the last callback invocation: its arguments, what it read, its result
    prev,        \* an earlier callback invocation, kept for comparison with later ones
    strategy,    \* the strategy whose populate_entry_trend the host runs
    dataframe    \* the table handed to populate_entry_trend

vars == <<self, dp, trade, call, prev, strategy, dataframe>>

----------------------------------------------------------------------------
(* Bounds.                                                                 *)

\* longest analyzed dataframe the data provider holds
MaxRows == 2

\* longest table handed to populate_entry_trend
MaxCandles == 2

----------------------------------------------------------------------------
(* Float arithmetic.                                                       *)

RECURSIVE GCD(_, _)
GCD(a, b) == IF b = 0 THEN a ELSE GCD(b, a % b)

Abs(x) == IF x < 0 THEN -x ELSE x

NaN == [n |-> 0, d |-> 0]

IsNaN(x) == x.d = 0

\* the rational n/d in lowest terms, d # 0
Rat(n, d) ==
    LET g == GCD(Abs(n), Abs(d))
        s == IF d < 0 THEN -1 ELSE 1
    IN  [n |-> s * (n \div g), d |-> s * (d \div g)]

Lt(a, b) == ~IsNaN(a) /\ ~IsNaN(b) /\ a.n * b.d < b.n * a.d

Le(a, b) == ~IsNaN(a) /\ ~IsNaN(b) /\ a.n * b.d <= b.n * a.d

Gt(a, b) == Lt(b, a)

Ge(a, b) == Le(b, a)

Neg(a) == IF IsNaN(a) THEN NaN ELSE [n |-> -a.n, d |-> a.d]

Mul(a, b) == IF IsNaN(a) \/ IsNaN(b) THEN NaN ELSE Rat(a.n * b.n, a.d * b.d)

\* a / b for b # 0
Div(a, b) == IF IsNaN(a) \/ IsNaN(b) THEN NaN ELSE Rat(a.n * b.d, a.d * b.n)

\* Python's builtin min(a, b): the first argument unless the second is smaller
PyMin(a, b) == IF Lt(b, a) THEN b ELSE a

\* Python's builtin max(a, b): the first argument unless the second is larger
PyMax(a, b) == IF Gt(b, a) THEN b ELSE a

----------------------------------------------------------------------------
(* Values a callback hands back to the host.                               *)

RetFloat(v) == [kind |-> "float", val |-> v, flag |-> FALSE, exc |-> ""]

RetBool(b) == [kind |-> "bool", val |-> NaN, flag |-> b, exc |-> ""]

RetNone == [kind |-> "None", val |-> NaN, flag |-> FALSE, exc |-> ""]

Raise(e) == [kind |-> "raise", val |-> NaN, flag |-> FALSE, exc |-> e]

\* Optional[float]
Some(v) == [some |-> TRUE, v |-> v]

NoneOpt == [some |-> FALSE, v |-> NaN]

\* DataFrame or None
NoDataFrame == [present |-> FALSE, rows |-> <<>>]

DataFrame(rows) == [present |-> TRUE, rows |-> rows]

----------------------------------------------------------------------------
(* Inputs the host supplies.  An input set I is a record of small sets:    *)
(* the ATR values of the rows, the rates, the profits (per mille), the     *)
(* stake amounts and the minimum stakes.                                   *)

Inputs ==
    [atrs     |-> {NaN} \cup {Rat(k, 1) : k \in {0, 1, 3}},
     rates    |-> {Rat(30, 1), Rat(100, 1)},
     profits  |-> {Rat(k, 1000) : k \in {-5, 0, 100, 110, 120, 130, 140, 150, 200}},
     stakes   |-> {Rat(100, 1)},
     proposed |-> {Rat(30, 1), Rat(60, 1)},
     minimums |-> {NoneOpt, Some(Rat(10, 1)), Some(Rat(30, 1))}]

\* the smaller input sets of the specification that compares pairs of calls
PairInputs ==
    [atrs     |-> {Rat(0, 1), Rat(3, 1)},
     rates    |-> {Rat(30, 1)},
     profits  |-> {Rat(-5, 1000), Rat(150, 1000)},
     stakes   |-> {Rat(100, 1)},
     proposed |-> {Rat(30, 1)},
     minimums |-> {NoneOpt, Some(Rat(30, 1))}]

Row(atr) == [atr |-> atr]

\* dataframe.empty
empty(df) == Len(df.rows) = 0

\* dataframe.iloc[-1]
iloc_last(df) == df.rows[Len(df.rows)]

NoCall ==
    [op |-> "none", current_rate |-> NaN, current_profit |-> NaN,
     proposed_stake |-> NaN, min_stake |-> NoneOpt, ret |-> RetNone,
     atr_read |-> FALSE]

TradeCall(op, current_rate, current_profit, res) ==
    [op |-> op, current_rate |-> current_rate, current_profit |-> current_profit,
     proposed_stake |-> NaN, min_stake |-> NoneOpt, ret |-> res.ret,
     atr_read |-> res.atr_read]

StakeCall(op, proposed_stake, min_stake, res) ==
    [op |-> op, current_rate |-> NaN, current_profit |-> NaN,
     proposed_stake |-> proposed_stake, min_stake |-> min_stake, ret |-> res.ret,
     atr_read |-> res.atr_read]

\* what a callback did: the value it returned (or the exception it raised) and
\* whether it read the atr column
Result(ret, atr_read) == [ret |-> ret, atr_read |-> atr_read]

----------------------------------------------------------------------------
(* ShinonV2: the ATR based stop-loss and take-profit callbacks.            *)

ShinonV2_attributes ==
    [stoploss |-> Rat(-15, 100), volume_filter |-> Rat(11, 10), trend_filter |-> TRUE]

min_sl == Rat(3, 100)

max_sl == Rat(7, 100)

\* the bounds the wrong way round: min(min_sl, max(risk_pct, max_sl))
dynamic_sl_swapped(risk_pct) == PyMin(min_sl, PyMax(risk_pct, max_sl))

\* max(min_sl, min(risk_pct, max_sl))
dynamic_sl(risk_pct) == PyMax(min_sl, PyMin(risk_pct, max_sl))

\* custom_stoploss that tests only `dataframe is None`
custom_stoploss_none_only(slf, df, trd, current_rate, current_profit) ==
    IF ~df.present
    THEN Result(RetFloat(slf.ShinonV2.stoploss), FALSE)
    ELSE IF empty(df)
    THEN Result(Raise("IndexError"), TRUE)
    ELSE IF trd.is_short
         THEN Result(RetFloat(dynamic_sl(Div(iloc_last(df).atr, current_rate))), TRUE)
         ELSE Result(RetFloat(Neg(dynamic_sl(Div(iloc_last(df).atr, current_rate)))), TRUE)

ShinonV2_custom_stoploss(slf, df, trd, current_rate, current_profit) ==
    IF ~df.present \/ empty(df)
    THEN Result(RetFloat(slf.ShinonV2.stoploss), FALSE)
    ELSE LET last_row == iloc_last(df)
             atr      == last_row.atr
             risk_pct == Div(atr, current_rate)
         IN  IF trd.is_short
             THEN Result(RetFloat(dynamic_sl(risk_pct)), TRUE)
             ELSE Result(RetFloat(Neg(dynamic_sl(risk_pct))), TRUE)

\* target_profit of custom_exit: 4 times the dynamic stop-loss, then bounded
\* to 5% .. 15%
target_profit(risk_pct) ==
    LET target == Mul(Rat(4, 1), PyMax(Rat(3, 100), PyMin(risk_pct, Rat(7, 100))))
    IN  PyMax(Rat(5, 100), PyMin(target, Rat(15, 100)))

\* custom_exit with current_profit > target_profit
custom_exit_strict(slf, df, trd, current_rate, current_profit) ==
    IF ~df.present \/ empty(df)
    THEN Result(RetBool(FALSE), FALSE)
    ELSE Result(RetBool(Gt(current_profit,
                           target_profit(Div(iloc_last(df).atr, current_rate)))), TRUE)

ShinonV2_custom_exit(slf, df, trd, current_rate, current_profit) ==
    IF ~df.present \/ empty(df)
    THEN Result(RetBool(FALSE), FALSE)
    ELSE LET last_row == iloc_last(df)
             atr      == last_row.atr
             risk_pct == Div(atr, current_rate)
         IN  IF Ge(current_profit, target_profit(risk_pct))
             THEN Result(RetBool(TRUE), TRUE)
             ELSE Result(RetBool(FALSE), TRUE)

----------------------------------------------------------------------------
(* ZaratustraV2: the stake and position-adjustment (DCA) callbacks.        *)

ZaratustraV2_attributes ==
    [max_dca_multiplier |-> Rat(3, 2), adx_threshold |-> 21, rsi_threshold |-> 64]

ZaratustraV2_custom_stake_amount(slf, proposed_stake, min_stake) ==
    LET adjusted_stake == Div(proposed_stake, slf.ZaratustraV2.max_dca_multiplier)
    IN  IF ~min_stake.some
        THEN Result(Raise("TypeError"), FALSE)      \* max(float, None)
        ELSE Result(RetFloat(PyMax(adjusted_stake, min_stake.v)), FALSE)

ZaratustraV2_adjust_trade_position(slf, df, trd, current_rate, current_profit) ==
    IF ~df.present
    THEN Result(Raise("TypeError"), FALSE)          \* None['atr']
    ELSE IF empty(df)
    THEN Result(Raise("LookupError"), TRUE)         \* ['atr'].iloc[-1] of no rows
    ELSE LET atr   == iloc_last(df).atr
             take  == Gt(current_profit, Rat(10, 100)) /\ trd.nr_of_successful_exits = 0
             add   == Lt(current_profit, Mul(Rat(-5, 100), Div(atr, current_rate)))
             half  == RetFloat(Neg(Div(trd.stake_amount, Rat(2, 1))))
             more  == RetFloat(Mul(trd.stake_amount, Rat(6, 10)))
         IN  IF trd.entry_side = "buy"
             THEN IF take THEN Result(half, TRUE)
                  ELSE IF add THEN Result(more, TRUE)
                  ELSE Result(RetNone, TRUE)
             ELSE IF take THEN Result(half, TRUE)
                  ELSE IF add THEN Result(more, TRUE)
                  ELSE Result(RetNone, TRUE)

----------------------------------------------------------------------------
(* The host: it owns the analyzed dataframe and the trade, and calls the   *)
(* callbacks in any order.                                                 *)

Trades(I) ==
    {[is_short |-> sh, entry_side |-> IF sh THEN "sell" ELSE "buy",
      stake_amount |-> st, nr_of_successful_exits |-> ex] :
        sh \in BOOLEAN, st \in I.stakes, ex \in 0..1}

\* what a trade callback can see of the data provider: whether there is a
\* dataframe, whether it has rows, and its last row
LastRow(df) ==
    [present |-> df.present,
     empty   |-> ~df.present \/ Len(df.rows) = 0,
     row     |-> IF ~df.present \/ Len(df.rows) = 0 THEN Row(NaN) ELSE df.rows[Len(df.rows)]]

\* a callback invocation together with everything it was given
Observed(c, df, trd) ==
    [call  |-> c,
     last  |-> IF c.op \in {"none", "custom_stake_amount"} THEN LastRow(NoDataFrame)
               ELSE LastRow(df),
     trade |-> IF c.op \in {"none", "custom_stake_amount"} THEN [is_short |-> FALSE, entry_side |-> "buy", stake_amount |-> NaN, nr_of_successful_exits |-> 0]
               ELSE trd]

InitCallbacks ==
    /\ self = [ShinonV2 |-> ShinonV2_attributes, ZaratustraV2 |-> ZaratustraV2_attributes]
    /\ dp = NoDataFrame
    /\ trade \in Trades(PairInputs)
    /\ call = NoCall
    /\ prev = Observed(NoCall, NoDataFrame, trade)
    /\ strategy = "none"
    /\ dataframe = <<>>

\* the host analyzes one more candle of the pair
HostAnalyze(I) ==
    /\ Len(dp.rows) < MaxRows
    /\ \E atr \in I.atrs : dp' = DataFrame(Append(dp.rows, Row(atr)))
    /\ call' = NoCall
    /\ UNCHANGED <<self, trade, prev, strategy, dataframe>>

\* the host has no analyzed data for the pair (None, or a dataframe with no rows)
HostNoData ==
    /\ dp' \in {NoDataFrame, DataFrame(<<>>)}
    /\ call' = NoCall
    /\ UNCHANGED <<self, trade, prev, strategy, dataframe>>

\* the host opens another trade, or updates the open one
HostTrade(I) ==
    /\ trade' \in Trades(I)
    /\ call' = NoCall
    /\ UNCHANGED <<self, dp, prev, strategy, dataframe>>

\* custom_stoploss that keeps its last result in self.stoploss
custom_stoploss_caching(I) ==
    /\ \E current_rate \in I.rates, current_profit \in I.profits :
          LET res == ShinonV2_custom_stoploss(self, dp, trade, current_rate, current_profit)
          IN  /\ call' = TradeCall("custom_stoploss", current_rate, current_profit, res)
              /\ self' = [self EXCEPT !.ShinonV2.stoploss = res.ret.val]
    /\ UNCHANGED <<dp, trade, prev, strategy, dataframe>>

custom_stoploss(I) ==
    /\ \E current_rate \in I.rates, current_profit \in I.profits :
          call' = TradeCall("custom_stoploss", current_rate, current_profit,
                      ShinonV2_custom_stoploss(self, dp, trade, current_rate, current_profit))
    /\ UNCHANGED <<self, dp, trade, prev, strategy, dataframe>>

custom_exit(I) ==
    /\ \E current_rate \in I.rates, current_profit \in I.profits :
          call' = TradeCall("custom_exit", current_rate, current_profit,
                      ShinonV2_custom_exit(self, dp, trade, current_rate, current_profit))
    /\ UNCHANGED <<self, dp, trade, prev, strategy, dataframe>>

custom_stake_amount(I) ==
    /\ \E proposed_stake \in I.proposed, min_stake \in I.minimums :
          call' = StakeCall("custom_stake_amount", proposed_stake, min_stake,
                      ZaratustraV2_custom_stake_amount(self, proposed_stake, min_stake))
    /\ UNCHANGED <<self, dp, trade, prev, strategy, dataframe>>

adjust_trade_position(I) ==
    /\ \E current_rate \in I.rates, current_profit \in I.profits :
          call' = TradeCall("adjust_trade_position", current_rate, current_profit,
                      ZaratustraV2_adjust_trade_position(self, dp, trade, current_rate, current_profit))
    /\ UNCHANGED <<self, dp, trade, prev, strategy, dataframe>>

\* keep the last invocation, to compare a later one with it
Remember ==
    /\ call.op # "none"
    /\ prev' = Observed(call, dp, trade)
    /\ UNCHANGED <<self, dp, trade, call, strategy, dataframe>>

Next ==
    \/ HostAnalyze(Inputs)
    \/ HostNoData
    \/ HostTrade(Inputs)
    \/ custom_stoploss(Inputs)
    \/ custom_exit(Inputs)
    \/ custom_stake_amount(Inputs)
    \/ adjust_trade_position(Inputs)

Spec == InitCallbacks /\ [][Next]_vars

NextPairs ==
    \/ HostAnalyze(PairInputs)
    \/ HostNoData
    \/ HostTrade(PairInputs)
    \/ custom_stoploss(PairInputs)
    \/ custom_exit(PairInputs)
    \/ custom_stake_amount(PairInputs)
    \/ adjust_trade_position(PairInputs)
    \/ Remember

SpecPairs == InitCallbacks /\ [][NextPairs]_vars

----------------------------------------------------------------------------
(* Properties of the trade callbacks.                                      *)

\* the analyzed dataframe has at least one row
HasRows == dp.present /\ Len(dp.rows) > 0

\* the atr column of the newest row
LastAtr == dp.rows[Len(dp.rows)].atr

\* the atr of the last row is a number >= 0
AtrNonNegative == HasRows /\ Ge(LastAtr, Rat(0, 1))

\* x bounded to lo .. hi, for numbers
Clamp(x, lo, hi) == IF Lt(x, lo) THEN lo ELSE IF Gt(x, hi) THEN hi ELSE x

\* atr / current_rate of the last call
RiskPct == Div(LastAtr, call.current_rate)

\* C1: with no analyzed dataframe (None) or one without rows, custom_stoploss
\* returns the static stop-loss -0.15 and custom_exit returns False, whatever
\* the trade, the rate and the profit, and neither reads the atr column.
C1_FallbackOnMissingData ==
    (~dp.present \/ Len(dp.rows) = 0) =>
        /\ call.op = "custom_stoploss" =>
              call.ret = RetFloat(Rat(-15, 100)) /\ ~call.atr_read
        /\ call.op = "custom_exit" =>
              call.ret = RetBool(FALSE) /\ ~call.atr_read

C1_Witness ==
    /\ dp.present /\ Len(dp.rows) = 0
    /\ call.op = "custom_exit"
    /\ call.current_profit = Rat(200, 1000)
    /\ call.ret = RetBool(FALSE)

\* C2: with an analyzed dataframe that has no rows, adjust_trade_position
\* returns None (no adjustment) instead of failing.
C2_AdjustFallbackOnEmpty ==
    (dp.present /\ Len(dp.rows) = 0 /\ call.op = "adjust_trade_position") =>
        call.ret = RetNone

\* two invocations were given the same inputs: the same callback, the same
\* arguments (the trade among them) and the same last row
SameInputs(a, b) ==
    /\ a.call.op # "none"
    /\ [a.call EXCEPT !.ret = RetNone, !.atr_read = FALSE]
         = [b.call EXCEPT !.ret = RetNone, !.atr_read = FALSE]
    /\ a.last = b.last
    /\ a.trade = b.trade

\* a callback step changes no attribute of the strategy, of the trade or of
\* the data provider
CallbackFrame ==
    call'.op # "none" => self' = self /\ trade' = trade /\ dp' = dp

\* an earlier and a later invocation with the same inputs have the same result
SameInputsSameResult ==
    SameInputs(prev, Observed(call, dp, trade)) => prev.call.ret = call.ret

\* C3: the four trade callbacks are pure: a call changes no attribute of the
\* strategy or of the trade, and in any interleaving with the host's updates
\* two calls with equal arguments and equal last row return equal results.
C3_CallbacksPure == [][CallbackFrame]_vars /\ []SameInputsSameResult

C3_Witness ==
    /\ prev.call.op = "custom_stoploss"
    /\ call.op = "custom_stoploss"
    /\ SameInputs(prev, Observed(call, dp, trade))
    /\ Len(dp.rows) = MaxRows
    /\ dp.rows[1] # dp.rows[MaxRows]
    /\ call.ret = RetFloat(Neg(Rat(7, 100)))

\* C4: with rows, atr >= 0 and current_rate > 0, custom_stoploss returns
\* atr/current_rate bounded to 0.03 .. 0.07, negative for a long trade and
\* positive for a short one.
C4_StoplossClamped ==
    (call.op = "custom_stoploss" /\ AtrNonNegative) =>
        LET magnitude == Clamp(RiskPct, Rat(3, 100), Rat(7, 100))
        IN  call.ret = RetFloat(IF trade.is_short THEN magnitude ELSE Neg(magnitude))

C4_Witness ==
    /\ call.op = "custom_stoploss"
    /\ AtrNonNegative
    /\ trade.is_short
    /\ RiskPct = Rat(1, 30)
    /\ call.ret = RetFloat(Rat(1, 30))

\* C5 as stated: with rows and atr >= 0, custom_exit returns True exactly when
\* current_profit >= 4 times the dynamic stop-loss of custom_stoploss.
C5_ExitAtFourTimesStop ==
    (call.op = "custom_exit" /\ AtrNonNegative) =>
        call.ret = RetBool(Ge(call.current_profit, Mul(Rat(4, 1), dynamic_sl(RiskPct))))

\* C5 amended: with rows and atr >= 0, custom_exit returns True exactly when
\* current_profit >= 4 times the dynamic stop-loss bounded to 0.05 .. 0.15.
C5_ExitAtBoundedTarget ==
    (call.op = "custom_exit" /\ AtrNonNegative) =>
        LET four_sl == Mul(Rat(4, 1), Clamp(RiskPct, Rat(3, 100), Rat(7, 100)))
        IN  call.ret = RetBool(Ge(call.current_profit,
                                  Clamp(four_sl, Rat(5, 100), Rat(15, 100))))

C5_Witness ==
    /\ call.op = "custom_exit"
    /\ AtrNonNegative
    /\ RiskPct = Rat(1, 10)
    /\ call.current_profit = Rat(150, 1000)
    /\ call.ret = RetBool(TRUE)

----------------------------------------------------------------------------
(* The entry-signal hooks.  The host hands populate_entry_trend a table of *)
(* candles with the indicator columns filled in and the signal columns     *)
(* unset; the hook sets enter_long / enter_short (and enter_tag) on the    *)
(* rows its masks select.                                                  *)

Num(k) == Rat(k, 1)

Unset == [enter_long |-> 0, enter_short |-> 0, enter_tag |-> ""]

\* a candle of the table: its indicator columns and its signal columns
Candle(ind) == [ind |-> ind, sig |-> Unset]

\* (close, ema13, ema21) triples of a timeframe
MainTriples ==
    {<<Num(3), Num(2), Num(1)>>, <<Num(1), Num(2), Num(3)>>, <<Num(2), Num(3), Num(1)>>,
     <<Num(2), Num(1), Num(3)>>, <<Num(3), Num(1), Num(2)>>, <<Num(1), Num(3), Num(2)>>,
     <<Num(3), NaN, Num(1)>>}

InformativeTriples ==
    {<<Num(3), Num(2), Num(1)>>, <<Num(1), Num(2), Num(3)>>, <<Num(3), Num(1), Num(2)>>,
     <<Num(1), Num(3), Num(2)>>}

ShinonV1_candles ==
    {[close |-> m[1], ema13 |-> m[2], ema21 |-> m[3],
      informative_1h_close |-> h[1], informative_1h_ema13 |-> h[2],
      informative_1h_ema21 |-> h[3]] : m \in MainTriples, h \in InformativeTriples}

ShinonV2_candles ==
    {[close |-> c, bb_lower |-> Num(2), bb_upper |-> Num(2), volume |-> v,
      volume_ma |-> Num(100), adx |-> a, plus_di |-> di[1], minus_di |-> di[2]] :
        c \in {Num(1), Num(3)}, v \in {Num(100), Num(105), Num(160)}, a \in {Num(25), Num(35)},
        di \in {<<Num(1), Num(2)>>, <<Num(2), Num(1)>>}}

ZaratustraV2_candles ==
    {[market_trend |-> mt, dx |-> t[1], pdi |-> t[2], mdi |-> t[3], adx |-> Num(30),
      rsi |-> r, volatility |-> vol] :
        mt \in {1, -1}, r \in {Num(35), Num(65)}, vol \in {Rat(4, 100), Rat(6, 100)},
        t \in {<<Num(3), Num(2), Num(1)>>, <<Num(3), Num(1), Num(2)>>,
               <<Num(0), Num(2), Num(1)>>, <<Num(0), Num(1), Num(2)>>}}

Candles(s) ==
    IF s = "ShinonV1" THEN ShinonV1_candles
    ELSE IF s = "ShinonV2" THEN ShinonV2_candles
    ELSE ZaratustraV2_candles

\* the hyperparameter values of a strategy: the ends of each declared range
\* and its default
Hyperparameters(s) ==
    IF s = "ShinonV2"
    THEN {[ShinonV2 |-> [ShinonV2_attributes EXCEPT !.volume_filter = vf, !.trend_filter = tf],
           ZaratustraV2 |-> ZaratustraV2_attributes] :
              vf \in {Rat(10, 10), Rat(11, 10), Rat(15, 10)}, tf \in BOOLEAN}
    ELSE IF s = "ZaratustraV2"
    THEN {[ShinonV2 |-> ShinonV2_attributes,
           ZaratustraV2 |-> [ZaratustraV2_attributes EXCEPT !.adx_threshold = at, !.rsi_threshold = rt]] :
              at \in {20, 40}, rt \in {30, 64}}
    ELSE {[ShinonV2 |-> ShinonV2_attributes, ZaratustraV2 |-> ZaratustraV2_attributes]}

\* dataframe.loc[mask, columns] = values, for the signal columns; mask is a
\* boolean Series
loc_set(df, mask, column, tag) ==
    [i \in 1..Len(df) |->
        IF mask[i]
        THEN [df[i] EXCEPT !.sig = IF tag = ""
                                   THEN [@ EXCEPT ![column] = 1]
                                   ELSE [@ EXCEPT ![column] = 1, !.enter_tag = tag]]
        ELSE df[i]]

\* np.all(conditions, axis=0) of a list of boolean Series over df
np_all(df, conditions) ==
    [i \in 1..Len(df) |-> \A k \in 1..Len(conditions) : conditions[k][i]]

\* qtpylib.crossed_above(series1, series2): series1 > series2 on the row and
\* series1 <= series2 on the row before (shift(1) of the first row is NaN)
crossed_above(df, series1, series2) ==
    [i \in 1..Len(df) |->
        /\ Gt(df[i].ind[series1], df[i].ind[series2])
        /\ i > 1
        /\ Le(df[i - 1].ind[series1], df[i - 1].ind[series2])]

(* ShinonV1 *)

conditions_long(df) ==
    <<[i \in 1..Len(df) |-> Gt(df[i].ind.close, df[i].ind.ema13)],
      [i \in 1..Len(df) |-> Gt(df[i].ind.close, df[i].ind.ema21)],
      [i \in 1..Len(df) |-> Gt(df[i].ind.ema13, df[i].ind.ema21)],
      [i \in 1..Len(df) |-> Gt(df[i].ind.informative_1h_close, df[i].ind.informative_1h_ema13)],
      [i \in 1..Len(df) |-> Gt(df[i].ind.informative_1h_close, df[i].ind.informative_1h_ema21)],
      [i \in 1..Len(df) |-> Gt(df[i].ind.informative_1h_ema13, df[i].ind.informative_1h_ema21)]>>

\* the short conditions with the 1h EMA comparison left out
conditions_short_five(df) ==
    <<[i \in 1..Len(df) |-> Lt(df[i].ind.close, df[i].ind.ema13)],
      [i \in 1..Len(df) |-> Lt(df[i].ind.close, df[i].ind.ema21)],
      [i \in 1..Len(df) |-> Lt(df[i].ind.ema13, df[i].ind.ema21)],
      [i \in 1..Len(df) |-> Lt(df[i].ind.informative_1h_close, df[i].ind.informative_1h_ema13)],
      [i \in 1..Len(df) |-> Lt(df[i].ind.informative_1h_close, df[i].ind.informative_1h_ema21)]>>

conditions_short(df) ==
    <<[i \in 1..Len(df) |-> Lt(df[i].ind.close, df[i].ind.ema13)],
      [i \in 1..Len(df) |-> Lt(df[i].ind.close, df[i].ind.ema21)],
      [i \in 1..Len(df) |-> Lt(df[i].ind.ema13, df[i].ind.ema21)],
      [i \in 1..Len(df) |-> Lt(df[i].ind.informative_1h_close, df[i].ind.informative_1h_ema13)],
      [i \in 1..Len(df) |-> Lt(df[i].ind.informative_1h_close, df[i].ind.informative_1h_ema21)],
      [i \in 1..Len(df) |-> Lt(df[i].ind.informative_1h_ema13, df[i].ind.informative_1h_ema21)]>>

ShinonV1_entry(slf, df) ==
    LET long == loc_set(df, np_all(df, conditions_long(df)), "enter_long",
                        "Long: EMA trend confirmed on main & 1h")
    IN  loc_set(long, np_all(long, conditions_short(long)), "enter_short",
                "Short: EMA trend confirmed on main & 1h")

(* ShinonV2 *)

\* the long mask with the volume compared to the moving average alone
ShinonV2_long_mask_no_filter(slf, df) ==
    [i \in 1..Len(df) |->
        LET r == df[i].ind
        IN  /\ Lt(r.close, r.bb_lower)
            /\ Gt(r.volume, r.volume_ma)
            /\ (IF slf.ShinonV2.trend_filter THEN Gt(r.adx, Num(30)) ELSE TRUE)
            /\ Gt(r.plus_di, r.minus_di)]

ShinonV2_long_mask(slf, df) ==
    [i \in 1..Len(df) |->
        LET r == df[i].ind
        IN  /\ Lt(r.close, r.bb_lower)
            /\ Gt(r.volume, Mul(r.volume_ma, slf.ShinonV2.volume_filter))
            /\ (IF slf.ShinonV2.trend_filter THEN Gt(r.adx, Num(30)) ELSE TRUE)
            /\ Gt(r.plus_di, r.minus_di)]

ShinonV2_short_mask(slf, df) ==
    [i \in 1..Len(df) |->
        LET r == df[i].ind
        IN  /\ Gt(r.close, r.bb_upper)
            /\ Gt(r.volume, Mul(r.volume_ma, slf.ShinonV2.volume_filter))
            /\ (IF slf.ShinonV2.trend_filter THEN Gt(r.adx, Num(30)) ELSE TRUE)
            /\ Gt(r.minus_di, r.plus_di)]

ShinonV2_entry(slf, df) ==
    LET long == loc_set(df, ShinonV2_long_mask(slf, df), "enter_long", "")
    IN  loc_set(long, ShinonV2_short_mask(slf, long), "enter_short", "")

(* ZaratustraV2 *)

ZaratustraV2_long_mask(slf, df) ==
    [i \in 1..Len(df) |->
        LET r == df[i].ind
        IN  /\ r.market_trend = 1
            /\ crossed_above(df, "dx", "pdi")[i]
            /\ Gt(r.adx, Num(slf.ZaratustraV2.adx_threshold))
            /\ Gt(r.pdi, r.mdi)
            /\ Gt(r.rsi, Num(slf.ZaratustraV2.rsi_threshold))
            /\ Lt(r.volatility, Rat(5, 100))]

\* the short mask as a copy of the long mask with only the RSI test mirrored
ZaratustraV2_short_mask_copied(slf, df) ==
    [i \in 1..Len(df) |->
        LET r == df[i].ind
        IN  /\ r.market_trend = 1
            /\ crossed_above(df, "dx", "pdi")[i]
            /\ Gt(r.adx, Num(slf.ZaratustraV2.adx_threshold))
            /\ Gt(r.pdi, r.mdi)
            /\ Gt(r.rsi, Num(100 - slf.ZaratustraV2.rsi_threshold))
            /\ Lt(r.volatility, Rat(5, 100))]

ZaratustraV2_short_mask(slf, df) ==
    [i \in 1..Len(df) |->
        LET r == df[i].ind
        IN  /\ r.market_trend = -1
            /\ crossed_above(df, "dx", "mdi")[i]
            /\ Gt(r.adx, Num(slf.ZaratustraV2.adx_threshold))
            /\ Gt(r.mdi, r.pdi)
            /\ Lt(r.rsi, Num(100 - slf.ZaratustraV2.rsi_threshold))
            /\ Lt(r.volatility, Rat(5, 100))]

ZaratustraV2_entry(slf, df) ==
    LET long == loc_set(df, ZaratustraV2_long_mask(slf, df), "enter_long",
                        "ZaratustraDCA Entry Long")
    IN  loc_set(long, ZaratustraV2_short_mask(slf, long), "enter_short",
                "ZaratustraDCA Entry Short")

Populated == [NoCall EXCEPT !.op = "populate_entry_trend"]

InitEntry ==
    /\ strategy \in {"ShinonV1", "ShinonV2", "ZaratustraV2"}
    /\ self \in Hyperparameters(strategy)
    /\ dataframe = <<>>
    /\ dp = NoDataFrame
    /\ trade \in Trades([stakes |-> {Num(100)}])
    /\ ~trade.is_short /\ trade.nr_of_successful_exits = 0
    /\ call = NoCall
    /\ prev = Observed(NoCall, NoDataFrame, trade)

\* the host closes one more candle and hands over the table afresh: the
\* indicator columns filled in, the signal columns unset
HostCandle ==
    /\ Len(dataframe) < MaxCandles
    /\ \E ind \in Candles(strategy) :
          dataframe' = [i \in 1..Len(dataframe) |-> Candle(dataframe[i].ind)]
                          \o <<Candle(ind)>>
    /\ call' = NoCall
    /\ UNCHANGED <<self, dp, trade, prev, strategy>>

ShinonV1_populate_entry_trend ==
    /\ strategy = "ShinonV1"
    /\ dataframe' = ShinonV1_entry(self, dataframe)
    /\ call' = Populated
    /\ UNCHANGED <<self, dp, trade, prev, strategy>>

ShinonV2_populate_entry_trend ==
    /\ strategy = "ShinonV2"
    /\ dataframe' = ShinonV2_entry(self, dataframe)
    /\ call' = Populated
    /\ UNCHANGED <<self, dp, trade, prev, strategy>>

ZaratustraV2_populate_entry_trend ==
    /\ strategy = "ZaratustraV2"
    /\ dataframe' = ZaratustraV2_entry(self, dataframe)
    /\ call' = Populated
    /\ UNCHANGED <<self, dp, trade, prev, strategy>>

NextEntry ==
    \/ HostCandle
    \/ ShinonV1_populate_entry_trend
    \/ ShinonV2_populate_entry_trend
    \/ ZaratustraV2_populate_entry_trend

SpecEntry == InitEntry /\ [][NextEntry]_vars

----------------------------------------------------------------------------
(* Properties of the entry-signal hooks.                                   *)

\* populate_entry_trend of strategy s has just run on the table
PopulatedBy(s) == strategy = s /\ call.op = "populate_entry_trend"

Rows == 1..Len(dataframe)

Signalled(i) == dataframe[i].sig.enter_long = 1 \/ dataframe[i].sig.enter_short = 1

\* C6: after ShinonV1.populate_entry_trend, on every row enter_long is 1
\* exactly when the six > comparisons hold, enter_short is 1 exactly when the
\* six < comparisons hold, and enter_tag of a signalled row names the
\* direction signalled.
C6_ShinonV1EntryExact ==
    PopulatedBy("ShinonV1") =>
        \A i \in Rows :
            LET r == dataframe[i].ind
                g == dataframe[i].sig
            IN  /\ g.enter_long = 1 <=>
                      /\ Gt(r.close, r.ema13) /\ Gt(r.close, r.ema21)
                      /\ Gt(r.ema13, r.ema21)
                      /\ Gt(r.informative_1h_close, r.informative_1h_ema13)
                      /\ Gt(r.informative_1h_close, r.informative_1h_ema21)
                      /\ Gt(r.informative_1h_ema13, r.informative_1h_ema21)
                /\ g.enter_short = 1 <=>
                      /\ Lt(r.close, r.ema13) /\ Lt(r.close, r.ema21)
                      /\ Lt(r.ema13, r.ema21)
                      /\ Lt(r.informative_1h_close, r.informative_1h_ema13)
                      /\ Lt(r.informative_1h_close, r.informative_1h_ema21)
                      /\ Lt(r.informative_1h_ema13, r.informative_1h_ema21)
                /\ g.enter_long = 1 =>
                      g.enter_tag = "Long: EMA trend confirmed on main & 1h"
                /\ g.enter_short = 1 =>
                      g.enter_tag = "Short: EMA trend confirmed on main & 1h"

C6_Witness ==
    /\ PopulatedBy("ShinonV1")
    /\ Len(dataframe) = 2
    /\ dataframe[1].sig.enter_long = 1
    /\ dataframe[2].sig.enter_short = 1
    /\ dataframe[2].sig.enter_tag = "Short: EMA trend confirmed on main & 1h"

C8_NeverBothDirections ==
    \A i \in Rows :
        ~(dataframe[i].sig.enter_long = 1 /\ dataframe[i].sig.enter_short = 1)

C8_Witness ==
    /\ PopulatedBy("ZaratustraV2")
    /\ Len(dataframe) = 2
    /\ dataframe[2].sig.enter_short = 1
    /\ dataframe[2].sig.enter_long = 0
    /\ dataframe[2].sig.enter_tag = "ZaratustraDCA Entry Short"
    /\ dataframe[1].sig = Unset

====
